---- MODULE Spec2Model ----
(***************************************************************************)
(* MessageEvent<M> (Source/Common/MessageEvent.h): the envelope that hands *)
(* a received message to a subscriber callback together with its receipt   *)
(* time and connection header, and that lazily materializes one mutable    *)
(* copy of the payload.                                                    *)
(*                                                                         *)
(* Shared pointers are modelled as addresses: Null is the empty pointer,   *)
(* the objects they own live in `heap` (message objects) and `headers`     *)
(* (StringMap objects).  Two envelopes exist: one MessageEvent<M const>    *)
(* and one MessageEvent<M>.                                                *)
(***************************************************************************)
EXTENDS Integers, FiniteSets, Sequences, TLC

\* ---------------------------------------------------------------- bounds
MaxAddr == 5          \* highest message-object address (heap capacity)

\* ------------------------------------------------------------- constants
Null == 0             \* an empty boost::shared_ptr / empty boost::function
BadPtr == 1           \* the pointer image of the bool `true` (operator==)
DefaultVal == 0       \* content of a make_shared<M>() instance

ConstEnv == {"c1"}                 \* envelopes of type MessageEvent<M const>
MutEnv == {"m1"}                   \* envelopes of type MessageEvent<M>
Env == ConstEnv \cup MutEnv
Thr == {"t1", "t2"}                \* threads of the concurrent specification

Addr == (BadPtr + 1)..MaxAddr      \* addresses of message objects
Payloads == {BadPtr + 1, BadPtr + 2}   \* the received (published) payloads
Val == {DefaultVal, 5, 6, 7}       \* message contents
MutVals == {6}                     \* the values a callback writes into a message
Hdr == {1, 2}                      \* addresses of StringMap objects
\* the (connection header, receipt time) pairs messages are delivered with
Deliveries == {<<Null, 0>>, <<1, 0>>, <<2, 1>>}
\* the (payload, connection header, receipt time) triples of the messages
\* the subscription hands over
Received == {<<BadPtr + 1, Null, 0>>, <<BadPtr + 2, 1, 1>>}
NoFactory == "none"                \* an empty CreateFunction
DefaultFactory == "DefaultMessageCreator"
Factories == {NoFactory, DefaultFactory}
s_unknown_publisher_string_ == "unknown_publisher"

VARIABLES
  message_,              \* Env -> pointer: ConstMessagePtr message_
  message_copy_,         \* Env -> pointer: mutable MessagePtr message_copy_
  connection_header_,    \* Env -> header pointer
  receipt_time_,         \* Env -> Times
  nonconst_need_copy_,   \* Env -> BOOLEAN
  create_,               \* Env -> Factories
  heap,                  \* allocated message objects: address -> content
  headers,               \* StringMap objects: address -> (key -> string)
  status,                \* "running" | "aborted" (assert failure, crash)
  ncreate,               \* Env -> number of create_() calls since the cache was last reset
  rets,                  \* Env -> pointers getMessage() returned since message_ or the flag was last set
  copySrc,               \* Env -> payload the cached copy was assigned from
  last,                  \* the last operation, when it was an operator=, a copy
                         \* construction, a call that returned a value other than
                         \* a message pointer, or a call that failed
  pc,                    \* Thr -> position inside copyMessageIfNecessary
  callers,               \* threads that completed a getMessage() on the shared envelope
  overlap                \* TRUE once two getMessage() calls on it overlapped in time

vars == <<message_, message_copy_, connection_header_, receipt_time_,
          nonconst_need_copy_, create_, heap, headers, status, ncreate,
          rets, copySrc, last, pc, callers, overlap>>

envVars == <<message_, message_copy_, connection_header_, receipt_time_,
             nonconst_need_copy_, create_>>
thrVars == <<pc, callers, overlap>>

EmptyMap == [k \in {} |-> ""]

NoOp == [op |-> "none", e |-> "", src |-> "", str |-> "", bool |-> FALSE,
         result |-> "ok", pcopy |-> Null, ret |-> Null]

\* boost::is_const<M>::value
IsConst(e) == e \in ConstEnv

\* MessageEvent(): every member default-constructed, nonconst_need_copy_(true)
Init ==
  /\ message_ = [e \in Env |-> Null]
  /\ message_copy_ = [e \in Env |-> Null]
  /\ connection_header_ = [e \in Env |-> Null]
  /\ receipt_time_ = [e \in Env |-> 0]
  /\ nonconst_need_copy_ = [e \in Env |-> TRUE]
  /\ create_ = [e \in Env |-> NoFactory]
  /\ heap = [a \in Payloads |-> IF a = BadPtr + 1 THEN 5 ELSE 7]
  /\ headers = [h \in Hdr |-> IF h = 1 THEN EmptyMap ELSE [k \in {"callerid"} |-> "nodeA"]]
  /\ status = "running"
  /\ ncreate = [e \in Env |-> 0]
  /\ rets = [e \in Env |-> {}]
  /\ copySrc = [e \in Env |-> Null]
  /\ last = NoOp
  /\ pc = [t \in Thr |-> "idle"]
  /\ callers = {}
  /\ overlap = FALSE

\* ------------------------------------------------------------ the heap
HasFree == Addr \ DOMAIN heap # {}
NewAddr == CHOOSE a \in Addr \ DOMAIN heap : \A b \in Addr \ DOMAIN heap : a <= b

\* ------------------------------------------- copyMessageIfNecessary<M2>
\* line 244: if(boost::is_const<M>::value || !nonconst_need_copy_)
WillAliasNoConstTest(e) == ~nonconst_need_copy_[e]
WillAliasConstOnly(e) == IsConst(e)
WillAlias(e) == IsConst(e) \/ ~nonconst_need_copy_[e]

\* line 249: if(message_copy_)
CacheHitNever(e) == FALSE
CacheHit(e) == message_copy_[e] # Null

\* line 254: assert(create_)
FactoryUsableAlways(e) == TRUE
FactoryUsable(e) == create_[e] # NoFactory

Outcome(ret, copy, hp, created, result) ==
  [ret |-> ret, copy |-> copy, heap |-> hp, created |-> created, result |-> result]

\* line 256: *message_copy_ = *message_;  the contents the new instance can
\* end with.  Dereferencing an empty or invalid message_ is undefined: the
\* copy receives arbitrary content (or the process crashes, see Materialize).
CopiedValuesSkipped(e) == {DefaultVal}
CopiedValues(e) == IF message_[e] \in DOMAIN heap THEN {heap[message_[e]]} ELSE Val

\* lines 254-258: assert(create_); message_copy_ = create_();
\* *message_copy_ = *message_; return message_copy_;
\* With no factory the assert aborts, or (NDEBUG) the empty boost::function
\* throws bad_function_call.
Materialize(e) ==
  IF ~FactoryUsable(e)
  THEN {Outcome(Null, message_copy_[e], heap, 0, r) :
           r \in {"assert_abort", "bad_function_call"}}
  ELSE IF ~HasFree THEN {}
  ELSE {Outcome(NewAddr, NewAddr, heap @@ (NewAddr :> v), 1, "ok") : v \in CopiedValues(e)}
       \cup (IF message_[e] \in DOMAIN heap THEN {}
             ELSE {Outcome(Null, NewAddr, heap @@ (NewAddr :> DefaultVal), 1, "crash")})

\* lines 241-259: the set of outcomes of one call on envelope e
copyMessageIfNecessary(e) ==
  IF WillAlias(e) THEN {Outcome(message_[e], message_copy_[e], heap, 0, "ok")}
  ELSE IF CacheHit(e) THEN {Outcome(message_copy_[e], message_copy_[e], heap, 0, "ok")}
  ELSE Materialize(e)

Fatal == {"assert_abort", "crash"}

\* lines 155-158: getMessage()
GetMessage(e) ==
  /\ status = "running"
  /\ \E o \in copyMessageIfNecessary(e) :
       /\ message_copy_' = [message_copy_ EXCEPT ![e] = o.copy]
       /\ heap' = o.heap
       /\ ncreate' = [ncreate EXCEPT ![e] = @ + o.created]
       /\ copySrc' = IF o.created = 1 THEN [copySrc EXCEPT ![e] = message_[e]] ELSE copySrc
       /\ status' = IF o.result \in Fatal THEN "aborted" ELSE status
       /\ rets' = IF o.result = "ok" THEN [rets EXCEPT ![e] = @ \cup {o.ret}] ELSE rets
       /\ last' = IF o.result = "ok" THEN NoOp
                  ELSE [NoOp EXCEPT !.op = "getMessage", !.e = e, !.result = o.result]
  /\ UNCHANGED <<message_, connection_header_, receipt_time_, nonconst_need_copy_,
                 create_, headers, thrVars>>

\* a callback that asked for its own copy (M non-const, copy needed) writes
\* through the pointer getMessage() gave it
MutateReturned(e, v) ==
  /\ status = "running"
  /\ ~IsConst(e)
  /\ nonconst_need_copy_[e]
  /\ \E p \in rets[e] \cap DOMAIN heap :
       /\ heap[p] # v
       /\ heap' = [heap EXCEPT ![p] = v]
       /\ last' = NoOp
  /\ UNCHANGED <<envVars, headers, status, ncreate, rets, copySrc, thrVars>>

\* ------------------------------------------------------------- init
\* lines 120-130: the five assignments of init(); message_copy_ is not touched
init(e, message, connection_header, receipt_time, nonconst_need_copy, create) ==
  /\ message_' = [message_ EXCEPT ![e] = message]
  /\ connection_header_' = [connection_header_ EXCEPT ![e] = connection_header]
  /\ receipt_time_' = [receipt_time_ EXCEPT ![e] = receipt_time]
  /\ nonconst_need_copy_' = [nonconst_need_copy_ EXCEPT ![e] = nonconst_need_copy]
  /\ create_' = [create_ EXCEPT ![e] = create]

\* init() called on an existing envelope
OpInit(e, m, h, t, c, f) ==
  /\ status = "running"
  /\ init(e, m, h, t, c, f)
  /\ rets' = [rets EXCEPT ![e] = {}]
  /\ last' = NoOp
  /\ UNCHANGED <<message_copy_, heap, headers, status, ncreate, copySrc, thrVars>>

\* lines 111-118: a new envelope built by the fully explicit constructor
Construct(e, m, h, t, c, f) ==
  /\ status = "running"
  /\ init(e, m, h, t, c, f)
  /\ message_copy_' = [message_copy_ EXCEPT ![e] = Null]
  /\ ncreate' = [ncreate EXCEPT ![e] = 0]
  /\ copySrc' = [copySrc EXCEPT ![e] = Null]
  /\ rets' = [rets EXCEPT ![e] = {}]
  /\ last' = NoOp
  /\ UNCHANGED <<heap, headers, status, thrVars>>

\* lines 91-109: constructors that take a payload, an optional header and a
\* receipt time (Time::now() when not given): copy-needed, default factory
ConstructDefaults(e, m, h, t) == Construct(e, m, h, t, TRUE, DefaultFactory)

\* lines 50-53: MessageEvent()
ConstructEmpty(e) == Construct(e, Null, Null, 0, TRUE, NoFactory)

\* ------------------------------------------------------- operator=
\* lines 132-148: init(rhs.getMessage(), rhs.getConnectionHeaderPtr(),
\* rhs.getReceiptTime(), rhs.nonConstWillCopy(), rhs.getMessageFactory());
\* message_copy_.reset();  Both overloads have this body; rhs.getMessage()
\* runs copyMessageIfNecessary on the source.  ovr is the nonconst_need_copy
\* argument of the two-argument copy constructors ("keep" when absent).
\* lines 137, 147: message_copy_.reset();
ResetCopySkipped(copies, tgt) == copies
ResetCopy(copies, tgt) == [copies EXCEPT ![tgt] = Null]

Assign(tgt, src, ovr, opname) ==
  /\ status = "running"
  /\ \E o \in copyMessageIfNecessary(src) :
       /\ heap' = o.heap
       /\ status' = IF o.result \in Fatal THEN "aborted" ELSE status
       /\ last' = [NoOp EXCEPT !.op = opname, !.e = tgt, !.src = src,
                               !.result = o.result, !.pcopy = message_copy_[tgt]]
       /\ IF o.result = "ok"
          THEN /\ init(tgt, o.ret, connection_header_[src], receipt_time_[src],
                       IF ovr = "keep" THEN nonconst_need_copy_[src] ELSE ovr = "true",
                       create_[src])
               /\ message_copy_' = ResetCopy([message_copy_ EXCEPT ![src] = o.copy], tgt)
               /\ ncreate' = [[ncreate EXCEPT ![src] = @ + o.created] EXCEPT ![tgt] = 0]
               /\ copySrc' = [[copySrc EXCEPT ![src] = IF o.created = 1 THEN message_[src] ELSE @]
                                EXCEPT ![tgt] = Null]
               /\ rets' = [[rets EXCEPT ![src] = @ \cup {o.ret}] EXCEPT ![tgt] = {}]
          ELSE /\ message_copy_' = [message_copy_ EXCEPT ![src] = o.copy]
               /\ ncreate' = [ncreate EXCEPT ![src] = @ + o.created]
               /\ copySrc' = [copySrc EXCEPT ![src] = IF o.created = 1 THEN message_[src] ELSE @]
               /\ UNCHANGED <<message_, connection_header_, receipt_time_,
                              nonconst_need_copy_, create_, rets>>
  /\ UNCHANGED <<headers, thrVars>>

\* lines 132-148: operator= on an existing envelope (self-assignment included)
OpAssign(tgt, src) == Assign(tgt, src, "keep", "assign")

\* lines 55-76: the copy/converting constructors: *this = rhs, then the
\* optional nonconst_need_copy_ override
CopyConstruct(tgt, src, ovr) == tgt # src /\ Assign(tgt, src, ovr, "copy_construct")

\* ------------------------------------------------ getPublisherName
\* StringMap::operator[] (std::map): a missing key is inserted with an
\* empty string
MapIndex(m, k) == IF k \in DOMAIN m THEN m ELSE m @@ (k :> "")

\* lines 185-190
GetPublisherName(e) ==
  /\ status = "running"
  /\ IF connection_header_[e] # Null
     THEN LET h == connection_header_[e]
              m == MapIndex(headers[h], "callerid")
          IN /\ headers' = [headers EXCEPT ![h] = m]
             /\ last' = [NoOp EXCEPT !.op = "getPublisherName", !.e = e,
                                     !.str = m["callerid"]]
     ELSE /\ headers' = headers
          /\ last' = [NoOp EXCEPT !.op = "getPublisherName", !.e = e,
                                  !.str = s_unknown_publisher_string_]
  /\ UNCHANGED <<envVars, heap, status, ncreate, rets, copySrc, thrVars>>

\* ------------------------------------------------- the other accessors
\* lines 163-167: getConstMessage() returns message_
GetConstMessage(e) ==
  /\ status = "running"
  /\ last' = [NoOp EXCEPT !.op = "getConstMessage", !.e = e, !.ret = message_[e]]
  /\ UNCHANGED <<envVars, heap, headers, status, ncreate, rets, copySrc, thrVars>>

\* lines 171-175: getConnectionHeader() returns *connection_header_.
\* Dereferencing an empty connection_header_ is undefined: the process
\* crashes or the caller gets a reference to some arbitrary object.
GetConnectionHeader(e) ==
  /\ status = "running"
  /\ IF connection_header_[e] # Null
     THEN /\ last' = [NoOp EXCEPT !.op = "getConnectionHeader", !.e = e,
                                  !.ret = connection_header_[e]]
          /\ status' = status
     ELSE \/ /\ last' = [NoOp EXCEPT !.op = "getConnectionHeader", !.e = e,
                                     !.result = "crash"]
             /\ status' = "aborted"
          \/ /\ \E h \in Hdr \cup {Null} :
                  last' = [NoOp EXCEPT !.op = "getConnectionHeader", !.e = e, !.ret = h]
             /\ status' = status
  /\ UNCHANGED <<envVars, heap, headers, ncreate, rets, copySrc, thrVars>>

\* lines 176-180: getConnectionHeaderPtr() returns connection_header_
GetConnectionHeaderPtr(e) ==
  /\ status = "running"
  /\ last' = [NoOp EXCEPT !.op = "getConnectionHeaderPtr", !.e = e,
                          !.ret = connection_header_[e]]
  /\ UNCHANGED <<envVars, heap, headers, status, ncreate, rets, copySrc, thrVars>>

\* lines 195-198: getReceiptTime() returns receipt_time_
GetReceiptTime(e) ==
  /\ status = "running"
  /\ last' = [NoOp EXCEPT !.op = "getReceiptTime", !.e = e, !.ret = receipt_time_[e]]
  /\ UNCHANGED <<envVars, heap, headers, status, ncreate, rets, copySrc, thrVars>>

\* lines 200-203: return nonconst_need_copy_;
nonConstWillCopy(e) == nonconst_need_copy_[e]

\* lines 204-207: return !boost::is_const<M>::value && nonconst_need_copy_;
getMessageWillCopyNoConstTest(e) == nonconst_need_copy_[e]
getMessageWillCopy(e) == ~IsConst(e) /\ nonconst_need_copy_[e]

OpNonConstWillCopy(e) ==
  /\ status = "running"
  /\ last' = [NoOp EXCEPT !.op = "nonConstWillCopy", !.e = e, !.bool = nonConstWillCopy(e)]
  /\ UNCHANGED <<envVars, heap, headers, status, ncreate, rets, copySrc, thrVars>>

OpGetMessageWillCopy(e) ==
  /\ status = "running"
  /\ last' = [NoOp EXCEPT !.op = "getMessageWillCopy", !.e = e,
                          !.bool = getMessageWillCopy(e)]
  /\ UNCHANGED <<envVars, heap, headers, status, ncreate, rets, copySrc, thrVars>>

\* ----------------------------------------------------- comparisons
\* rhs is a const MessageEvent<M>&: an envelope of the same type, or, for a
\* MessageEvent<M> on the left, a MessageEvent<M const> converted by the
\* implicit constructor of lines 60-63 (which keeps message_, receipt_time_
\* and nonconst_need_copy_)
Comparable(a, b) == IsConst(a) = IsConst(b) \/ (~IsConst(a) /\ IsConst(b))

\* lines 209-222: operator<; shared_ptr and bool compare as integers
OperatorLessNoFlag(a, b) ==
  IF message_[a] # message_[b] THEN message_[a] < message_[b]
  ELSE receipt_time_[a] < receipt_time_[b]
OperatorLess(a, b) ==
  IF message_[a] # message_[b] THEN message_[a] < message_[b]
  ELSE IF receipt_time_[a] # receipt_time_[b] THEN receipt_time_[a] < receipt_time_[b]
  ELSE ~nonconst_need_copy_[a] /\ nonconst_need_copy_[b]

OpLess(a, b) ==
  /\ status = "running"
  /\ Comparable(a, b)
  /\ last' = [NoOp EXCEPT !.op = "less", !.e = a, !.src = b, !.bool = OperatorLess(a, b)]
  /\ UNCHANGED <<envVars, heap, headers, status, ncreate, rets, copySrc, thrVars>>

\* line 226: return message_ = rhs.message_ && receipt_time_ == rhs.receipt_time_
\*                            && nonconst_need_copy_ == rhs.nonconst_need_copy_;
\* && binds tighter than =: the value of the conjunction is assigned to
\* message_ and the result is the truth value of message_ afterwards.
OperatorEqualValue(a, b) ==
  /\ message_[b] # Null
  /\ receipt_time_[a] = receipt_time_[b]
  /\ nonconst_need_copy_[a] = nonconst_need_copy_[b]

BoolToPtr(b) == IF b THEN BadPtr ELSE Null

OperatorEqual(a, b, opname, negate) ==
  /\ status = "running"
  /\ Comparable(a, b)
  /\ message_' = [message_ EXCEPT ![a] = BoolToPtr(OperatorEqualValue(a, b))]
  /\ rets' = [rets EXCEPT ![a] = {}]
  /\ last' = [NoOp EXCEPT !.op = opname, !.e = a, !.src = b,
                          !.bool = (OperatorEqualValue(a, b) # negate)]
  /\ UNCHANGED <<message_copy_, connection_header_, receipt_time_, nonconst_need_copy_,
                 create_, heap, headers, status, ncreate, copySrc, thrVars>>

\* lines 224-227: operator==
OpEqual(a, b) == OperatorEqual(a, b, "equal", FALSE)

\* lines 229-232: operator!= is !(*this == rhs)
OpNotEqual(a, b) == OperatorEqual(a, b, "notequal", TRUE)

\* ------------------------------------------------ concurrent getMessage()
\* Threads run copyMessageIfNecessary (lines 244-258) on the one envelope
\* they share, one statement per step; the statements read and write
\* message_copy_ without any lock.
Shared == "m1"

Return(t, p) ==
  /\ rets' = [rets EXCEPT ![Shared] = @ \cup {p}]
  /\ callers' = callers \cup {t}
  /\ pc' = [pc EXCEPT ![t] = "idle"]

\* the call of getMessage() (lines 155-158)
ThreadCall(t) ==
  /\ status = "running"
  /\ pc[t] = "idle"
  /\ pc' = [pc EXCEPT ![t] = "l244"]
  /\ overlap' = (overlap \/ \E u \in Thr \ {t} : pc[u] # "idle")
  /\ UNCHANGED <<envVars, heap, headers, status, ncreate, rets, copySrc, last, callers>>

\* lines 244-247
Thread244(t) ==
  /\ status = "running"
  /\ pc[t] = "l244"
  /\ IF WillAlias(Shared)
     THEN Return(t, message_[Shared])
     ELSE pc' = [pc EXCEPT ![t] = "l249"] /\ UNCHANGED <<rets, callers>>
  /\ UNCHANGED <<envVars, heap, headers, status, ncreate, copySrc, last, overlap>>

\* lines 249-252
Thread249(t) ==
  /\ status = "running"
  /\ pc[t] = "l249"
  /\ IF CacheHit(Shared)
     THEN Return(t, message_copy_[Shared])
     ELSE pc' = [pc EXCEPT ![t] = "l254"] /\ UNCHANGED <<rets, callers>>
  /\ UNCHANGED <<envVars, heap, headers, status, ncreate, copySrc, last, overlap>>

\* lines 254-255: assert(create_); message_copy_ = create_();
Thread254(t) ==
  /\ status = "running"
  /\ pc[t] = "l254"
  /\ IF FactoryUsable(Shared)
     THEN /\ HasFree
          /\ message_copy_' = [message_copy_ EXCEPT ![Shared] = NewAddr]
          /\ heap' = heap @@ (NewAddr :> DefaultVal)
          /\ ncreate' = [ncreate EXCEPT ![Shared] = @ + 1]
          /\ pc' = [pc EXCEPT ![t] = "l256"]
          /\ UNCHANGED <<status, last>>
     ELSE /\ \E r \in {"assert_abort", "bad_function_call"} :
               /\ status' = IF r \in Fatal THEN "aborted" ELSE status
               /\ last' = [NoOp EXCEPT !.op = "getMessage", !.e = Shared, !.result = r]
          /\ pc' = [pc EXCEPT ![t] = "idle"]
          /\ UNCHANGED <<message_copy_, heap, ncreate>>
  /\ UNCHANGED <<message_, connection_header_, receipt_time_, nonconst_need_copy_,
                 create_, headers, rets, copySrc, callers, overlap>>

\* line 256: *message_copy_ = *message_;
Thread256(t) ==
  /\ status = "running"
  /\ pc[t] = "l256"
  /\ \E crash \in IF message_[Shared] \in DOMAIN heap THEN {FALSE} ELSE BOOLEAN :
       IF crash
       THEN /\ status' = "aborted"
            /\ last' = [NoOp EXCEPT !.op = "getMessage", !.e = Shared, !.result = "crash"]
            /\ UNCHANGED <<heap, copySrc, pc>>
       ELSE /\ \E v \in CopiedValues(Shared) :
                 heap' = [heap EXCEPT ![message_copy_[Shared]] = v]
            /\ copySrc' = [copySrc EXCEPT ![Shared] = message_[Shared]]
            /\ pc' = [pc EXCEPT ![t] = "l258"]
            /\ UNCHANGED <<status, last>>
  /\ UNCHANGED <<envVars, headers, ncreate, rets, callers, overlap>>

\* line 258: return message_copy_;
Thread258(t) ==
  /\ status = "running"
  /\ pc[t] = "l258"
  /\ Return(t, message_copy_[Shared])
  /\ UNCHANGED <<envVars, heap, headers, status, ncreate, copySrc, last, overlap>>

\* the subscription builds the envelope the callbacks receive (lines 111-118)
Deliver(r, c, f) ==
  /\ status = "running"
  /\ \A t \in Thr : pc[t] = "idle"
  /\ init(Shared, r[1], r[2], r[3], c, f)
  /\ message_copy_' = [message_copy_ EXCEPT ![Shared] = Null]
  /\ ncreate' = [ncreate EXCEPT ![Shared] = 0]
  /\ copySrc' = [copySrc EXCEPT ![Shared] = Null]
  /\ rets' = [rets EXCEPT ![Shared] = {}]
  /\ callers' = {}
  /\ overlap' = FALSE
  /\ last' = NoOp
  /\ UNCHANGED <<heap, headers, status, pc>>

\* ------------------------------------------------- specifications
Overrides == {"keep", "true", "false"}

\* construction, init(), operator= and payload access
Next ==
  \/ \E e \in Env, r \in Received, c \in BOOLEAN, f \in Factories :
        Construct(e, r[1], r[2], r[3], c, f)
  \/ \E e \in Env, r \in Received : ConstructDefaults(e, r[1], r[2], r[3])
  \/ \E e \in Env : ConstructEmpty(e)
  \/ \E e \in Env, r \in Received, c \in BOOLEAN, f \in Factories :
        OpInit(e, r[1], r[2], r[3], c, f)
  \/ \E tgt \in Env, src \in Env : OpAssign(tgt, src)
  \/ \E tgt \in Env, src \in Env, ovr \in Overrides : CopyConstruct(tgt, src, ovr)
  \/ \E e \in Env : GetMessage(e)
  \/ \E e \in Env, v \in MutVals : MutateReturned(e, v)

Spec == Init /\ [][Next]_vars

\* construction, the publisher name and the comparison operators
NextAccess ==
  \/ \E e \in Env, m \in Payloads, d \in Deliveries, c \in BOOLEAN :
        Construct(e, m, d[1], d[2], c, DefaultFactory)
  \/ \E e \in Env : ConstructEmpty(e)
  \/ \E e \in Env : GetPublisherName(e)
  \/ \E a \in Env, b \in Env : OpLess(a, b)
  \/ \E a \in Env, b \in Env : OpEqual(a, b)
  \/ \E a \in Env, b \in Env : OpNotEqual(a, b)

SpecAccess == Init /\ [][NextAccess]_vars

\* construction, init() and every accessor of the envelope
NextQueries ==
  \/ \E e \in Env, r \in Received, c \in BOOLEAN, f \in Factories :
        Construct(e, r[1], r[2], r[3], c, f)
  \/ \E e \in Env : ConstructEmpty(e)
  \/ \E e \in Env, r \in Received, c \in BOOLEAN, f \in Factories :
        OpInit(e, r[1], r[2], r[3], c, f)
  \/ \E e \in Env : GetMessage(e)
  \/ \E e \in Env : GetConstMessage(e)
  \/ \E e \in Env : GetConnectionHeader(e)
  \/ \E e \in Env : GetConnectionHeaderPtr(e)
  \/ \E e \in Env : GetPublisherName(e)
  \/ \E e \in Env : GetReceiptTime(e)
  \/ \E e \in Env : OpNonConstWillCopy(e)
  \/ \E e \in Env : OpGetMessageWillCopy(e)

SpecQueries == Init /\ [][NextQueries]_vars

\* one envelope handed to callbacks that run in several threads
NextThreads ==
  \/ \E r \in Received, c \in BOOLEAN, f \in Factories : Deliver(r, c, f)
  \/ \E t \in Thr : ThreadCall(t)
  \/ \E t \in Thr : Thread244(t)
  \/ \E t \in Thr : Thread249(t)
  \/ \E t \in Thr : Thread254(t)
  \/ \E t \in Thr : Thread256(t)
  \/ \E t \in Thr : Thread258(t)

SpecThreads == Init /\ [][NextThreads]_vars

\* ------------------------------------------------------------ properties

\* C1 - Single materialization: on a MessageEvent<M> with copy needed and a
\* usable factory, once getMessage() has been called (any number of times,
\* no init or assignment in between) every call returned the one cached copy
\* and the factory ran exactly once.
SingleMaterialization ==
  \A e \in MutEnv :
    (nonconst_need_copy_[e] /\ FactoryUsable(e) /\ rets[e] # {}) =>
      /\ message_copy_[e] # Null
      /\ rets[e] = {message_copy_[e]}
      /\ ncreate[e] = 1

SingleMaterializationWitness ==
  \E e \in MutEnv :
    /\ nonconst_need_copy_[e] /\ FactoryUsable(e)
    /\ message_[e] \in Payloads
    /\ rets[e] = {message_copy_[e]}
    /\ message_copy_[e] \in DOMAIN heap
    /\ ncreate[e] = 1

\* C2 - Zero copy for the immutable view: on a MessageEvent<M const>, for
\* both values of the flag, getMessage() only ever returns the instance held
\* in message_, never runs the factory and leaves message_copy_ empty.
ZeroCopyConstView ==
  \A e \in ConstEnv :
    /\ rets[e] \subseteq {message_[e]}
    /\ message_copy_[e] = Null
    /\ ncreate[e] = 0

ZeroCopyConstViewWitness ==
  \E e \in ConstEnv :
    /\ nonconst_need_copy_[e] /\ FactoryUsable(e)
    /\ message_[e] \in Payloads
    /\ rets[e] = {message_[e]}

\* C3 - Copy independence: on a MessageEvent<M> with copy needed and a valid
\* payload M, the step that materializes the copy yields a new instance,
\* distinct from M, with M's content; a write into the cached copy leaves
\* M's content unchanged; and a getMessage() with the cache populated returns
\* the cached instance and changes no content (no second copy from M).
CopyIndependence ==
  [][\A e \in MutEnv :
       (nonconst_need_copy_[e] /\ message_[e] \in DOMAIN heap) =>
         /\ (ncreate'[e] = ncreate[e] + 1) =>
              LET p == message_copy_'[e] IN
                /\ p \notin DOMAIN heap
                /\ p # message_[e]
                /\ p \in DOMAIN heap'
                /\ heap'[p] = heap[message_[e]]
                /\ heap'[message_[e]] = heap[message_[e]]
         /\ (/\ message_copy_[e] \in DOMAIN heap
             /\ heap'[message_copy_[e]] # heap[message_copy_[e]]) =>
              heap'[message_[e]] = heap[message_[e]]
         /\ (message_copy_[e] # Null /\ GetMessage(e)) =>
              /\ message_copy_'[e] = message_copy_[e]
              /\ heap' = heap
              /\ rets'[e] = rets[e] \cup {message_copy_[e]}
    ]_vars

CopyIndependenceWitness ==
  \E e \in MutEnv :
    /\ nonconst_need_copy_[e]
    /\ message_[e] \in Payloads
    /\ copySrc[e] = message_[e]
    /\ message_copy_[e] \in DOMAIN heap
    /\ message_copy_[e] # message_[e]
    /\ heap[message_[e]] = 5
    /\ heap[message_copy_[e]] = 6
    /\ rets[e] = {message_copy_[e]}

\* C4 - Conversion keeps the metadata and drops the cache: constructing or
\* assigning a MessageEvent<M> from a MessageEvent<M const> gives the target
\* the source's receipt time, header pointer, copy-needed flag and factory,
\* and an empty message_copy_.
ConversionKeepsMetadata ==
  [][\A tgt \in MutEnv, src \in ConstEnv :
       (OpAssign(tgt, src) \/ CopyConstruct(tgt, src, "keep")) =>
         /\ receipt_time_'[tgt] = receipt_time_[src]
         /\ connection_header_'[tgt] = connection_header_[src]
         /\ nonconst_need_copy_'[tgt] = nonconst_need_copy_[src]
         /\ create_'[tgt] = create_[src]
         /\ message_copy_'[tgt] = Null
    ]_vars

ConversionKeepsMetadataWitness ==
  /\ last.op = "assign" /\ last.e \in MutEnv /\ last.src \in ConstEnv
  /\ last.pcopy # Null
  /\ message_copy_[last.e] = Null
  /\ receipt_time_[last.e] = 1
  /\ connection_header_[last.e] # Null
  /\ ~nonconst_need_copy_[last.e]
  /\ FactoryUsable(last.e)
  /\ message_[last.e] \in Payloads

\* C5 - Envelope copies share storage: a copy construction or assignment
\* that completes, from any source envelope, leaves the target with the
\* source's message_ and header pointer, and allocates and copies nothing.
EnvelopeCopySharesStorage ==
  [][\A tgt \in Env, src \in Env :
       (/\ OpAssign(tgt, src) \/ \E ovr \in Overrides : CopyConstruct(tgt, src, ovr)
        /\ last'.result = "ok") =>
         /\ message_'[tgt] = message_[src]
         /\ connection_header_'[tgt] = connection_header_[src]
         /\ heap' = heap
    ]_vars

\* C10 - Cache coherence: a populated message_copy_ was copied from the
\* envelope's current message_.
CacheCoherence ==
  \A e \in MutEnv : message_copy_[e] # Null => copySrc[e] = message_[e]

\* C6 - Publisher fallback: getPublisherName() returns "unknown_publisher"
\* when the envelope has no header map, and also when the map has no
\* "callerid" key; otherwise it returns the value stored under "callerid".
PublisherFallback ==
  [][\A e \in Env :
       (last'.op = "getPublisherName" /\ last'.e = e) =>
         last'.str =
           IF connection_header_[e] = Null
              \/ "callerid" \notin DOMAIN headers[connection_header_[e]]
           THEN "unknown_publisher"
           ELSE headers[connection_header_[e]]["callerid"]
    ]_vars

\* C7 - Equality is identity based: a == b is true exactly when a and b hold
\* the same message_ pointer, equal receipt times and equal copy-needed
\* flags, and a != b is the negation.
EqualityByIdentity ==
  [][\A a \in Env, b \in Env :
       LET same == /\ message_[a] = message_[b]
                   /\ receipt_time_[a] = receipt_time_[b]
                   /\ nonconst_need_copy_[a] = nonconst_need_copy_[b]
       IN /\ (last'.op = "equal" /\ last'.e = a /\ last'.src = b) => last'.bool = same
          /\ (last'.op = "notequal" /\ last'.e = a /\ last'.src = b) => last'.bool = ~same
    ]_vars

\* C8 - Ordering is lexicographic over (message_ pointer, receipt time,
\* copy-needed flag with false < true): a < b is the lexicographic comparison
\* of the two triples, a < a never holds, and exactly one of a < b, b < a and
\* equality of the triples holds.
LexKey(e) == <<message_[e], receipt_time_[e], IF nonconst_need_copy_[e] THEN 1 ELSE 0>>
LexBefore(x, y) == \E i \in 1..3 : x[i] < y[i] /\ \A j \in 1..(i - 1) : x[j] = y[j]
ExactlyOne(p, q, r) == (p \/ q \/ r) /\ ~(p /\ q) /\ ~(p /\ r) /\ ~(q /\ r)

OrderingLexicographic ==
  /\ last.op = "less" => last.bool = LexBefore(LexKey(last.e), LexKey(last.src))
  /\ \A a \in Env, b \in Env :
       /\ ~OperatorLess(a, a)
       /\ ExactlyOne(OperatorLess(a, b), OperatorLess(b, a), LexKey(a) = LexKey(b))

\* the payload pointers decide although the receipt times order the other way
OrderingLexicographicWitness ==
  /\ last.op = "less" /\ last.bool
  /\ message_[last.e] \in Payloads /\ message_[last.src] \in Payloads
  /\ message_[last.e] < message_[last.src]
  /\ receipt_time_[last.e] > receipt_time_[last.src]

\* C9 - At most one materialization under concurrency: however the
\* getMessage() calls of several threads on one MessageEvent<M> interleave,
\* the factory runs at most once and every call returns the same instance.
AtMostOnceConcurrent ==
  /\ ncreate[Shared] <= 1
  /\ Cardinality(rets[Shared]) <= 1

\* C9 as amended: as long as no two getMessage() calls on the envelope have
\* overlapped in time, the factory ran at most once and every call returned
\* the same instance.
AtMostOnceSerialized ==
  ~overlap =>
    /\ ncreate[Shared] <= 1
    /\ Cardinality(rets[Shared]) <= 1

\* both threads have completed a call, one after the other, and got the copy
AtMostOnceSerializedWitness ==
  /\ ~overlap
  /\ callers = Thr
  /\ nonconst_need_copy_[Shared]
  /\ ncreate[Shared] = 1
  /\ rets[Shared] = {message_copy_[Shared]}
  /\ message_copy_[Shared] \in DOMAIN heap

\* C11 - The header mapping is read-only for the accessors: a call of
\* getPublisherName, getConnectionHeaderPtr, getReceiptTime, getMessage,
\* getConstMessage, nonConstWillCopy or getMessageWillCopy changes neither
\* the keys nor the values of any header map, also when the map has no
\* "callerid" key.
AccessorOps == {"getPublisherName", "getConnectionHeaderPtr", "getReceiptTime",
                "getConstMessage", "nonConstWillCopy", "getMessageWillCopy"}

HeaderReadOnly ==
  [][((last'.op \in AccessorOps /\ last'.result = "ok") \/ \E e \in Env : GetMessage(e))
        => headers' = headers
    ]_vars

ErrorOutcomes == {"assert_abort", "bad_function_call"}

MissingFactoryFailsFast ==
  [][\A e \in MutEnv :
       (/\ nonconst_need_copy_[e] /\ message_copy_[e] = Null /\ create_[e] = NoFactory
        /\ GetMessage(e)) =>
         /\ last'.op = "getMessage" /\ last'.e = e
         /\ last'.result \in ErrorOutcomes
         /\ rets' = rets
         /\ ncreate' = ncreate
         /\ heap' = heap
         /\ headers' = headers
         /\ envVars' = envVars
    ]_vars

\* the checked error: the process goes on with the envelope as it was
MissingFactoryFailsFastWitness ==
  /\ last.op = "getMessage" /\ last.e \in MutEnv
  /\ last.result = "bad_function_call"
  /\ status = "running"
  /\ nonconst_need_copy_[last.e]
  /\ create_[last.e] = NoFactory
  /\ message_[last.e] \in Payloads
  /\ message_copy_[last.e] = Null
  /\ rets[last.e] = {}

\* C14 - The will-copy queries agree with the behaviour: nonConstWillCopy()
\* returns the stored flag and changes nothing; getMessageWillCopy() is true
\* exactly on a MessageEvent<M> with copy-needed = true (false on a
\* MessageEvent<M const> for both flag values); and a getMessage() that
\* returns, whether called before or right after the query, returns an
\* instance other than message_ exactly when the query answered true.
WillCopyQueriesAgree ==
  [][\A e \in Env :
       /\ (last'.op = "nonConstWillCopy" /\ last'.e = e) =>
            /\ last'.bool = nonconst_need_copy_[e]
            /\ nonconst_need_copy_'[e] = nonconst_need_copy_[e]
       /\ (last'.op = "getMessageWillCopy" /\ last'.e = e) =>
            /\ last'.bool = (e \in MutEnv /\ nonconst_need_copy_[e])
            /\ e \in ConstEnv => ~last'.bool
            /\ last'.bool = (\A p \in rets[e] : p # message_[e])
                  \/ rets[e] = {}
       /\ (/\ last.op = "getMessageWillCopy" /\ last.e = e
           /\ GetMessage(e) /\ last' = NoOp) =>
            IF last.bool
            THEN /\ message_copy_'[e] # message_[e]
                 /\ rets'[e] = rets[e] \cup {message_copy_'[e]}
                 /\ message_[e] \notin rets'[e]
            ELSE rets'[e] = {message_[e]}
    ]_vars

\* getMessage() handed out a copy and the query then answered true
WillCopyQueriesAgreeWitness ==
  /\ last.op = "getMessageWillCopy" /\ last.bool
  /\ last.e \in MutEnv
  /\ message_[last.e] \in Payloads
  /\ message_copy_[last.e] \in DOMAIN heap
  /\ message_copy_[last.e] # message_[last.e]
  /\ rets[last.e] = {message_copy_[last.e]}

====
